---------------------------- MODULE Spec2Model ----------------------------
(***************************************************************************)
(* A model of src/src/utilities.ts of vscode-elixir-credo: the upward     *)
(* directory search findUp, the resolution of the credo configuration     *)
(* file, the assembly of the credo command line and of its environment.   *)
(*                                                                         *)
(* A string is a sequence of tokens: the path separator "/", the PATH     *)
(* delimiter ":" and names that contain neither.  The node:path functions *)
(* (POSIX flavour) and String.prototype.replace work on these sequences   *)
(* the way they work on characters, because a separator is one token.     *)
(***************************************************************************)
EXTENDS Integers, Sequences, FiniteSets, TLC

VARIABLES
    files,                    \* the filesystem: the set of existing files (absolute paths)
    DefaultCommandArguments,  \* the exported array of line 10 (shared by every call)
    op,                       \* the function called last
    in,                       \* its arguments and the settings and environment it read
    out,                      \* what it returned or threw (Undefined while findUp runs)
    logs,                     \* what it passed to log()
    fu                        \* the stack frame of the findUp call in progress

vars == <<files, DefaultCommandArguments, op, in, out, logs, fu>>

---------------------------------------------------------------------------
(* Bounds of the model *)

\* depth of the deepest directory of the tree
MaxDepth == 2
\* number of files on disk
MaxFiles == 2
\* length of the longest tag list
MaxTags == 2

---------------------------------------------------------------------------
(* JavaScript values that are not strings *)

Undefined == <<"#undefined">>
Null == <<"#null">>
\* RangeError: Maximum call stack size exceeded
RangeError == <<"#RangeError">>

\* the conditions `if (x)`, `x || y` on a string, undefined or null
Falsy(x) == x = <<>> \/ x = Undefined \/ x = Null

Or(x, y) == IF Falsy(x) THEN y ELSE x

\* a template literal `${x}` of a string or undefined
Template(x) == IF x = Undefined THEN <<"undefined">> ELSE x

---------------------------------------------------------------------------
(* Program constants, lines 7-10 *)

DefaultConfigFile == <<".credo.exs">>
DefaultCommand == "credo"
DiffCommand == "diff"
Sep == "/"
Delimiter == ":"

---------------------------------------------------------------------------
(* node:path, POSIX *)

isAbsolute(p) == Len(p) > 0 /\ p[1] = Sep

\* the segments of a path: its tokens that are no separator
IsSegment(t) == t # Sep

Segments(p) == SelectSeq(p, IsSegment)

\* normalizeString, one segment: "." is dropped, ".." takes the last segment
\* back (above the root there is nothing to take back)
ResolveSegment(acc, s, abs) ==
    IF s = "." THEN acc
    ELSE IF s = ".." THEN
        IF acc # <<>> /\ acc[Len(acc)] # ".." THEN SubSeq(acc, 1, Len(acc) - 1)
        ELSE IF abs THEN acc
        ELSE Append(acc, "..")
    ELSE Append(acc, s)

\* normalizeString: the segments are resolved left to right
RECURSIVE Resolve(_, _, _)
Resolve(segs, acc, abs) ==
    IF segs = <<>> THEN acc
    ELSE Resolve(Tail(segs), ResolveSegment(acc, Head(segs), abs), abs)

RECURSIVE JoinSegments(_)
JoinSegments(segs) ==
    IF segs = <<>> THEN <<>>
    ELSE IF Len(segs) = 1 THEN segs
    ELSE <<Head(segs), Sep>> \o JoinSegments(Tail(segs))

\* path.normalize, given the resolved segments of the path, joined
Normalized(body, abs, trailing) ==
    IF body = <<>>
        THEN (IF abs THEN <<Sep>> ELSE IF trailing THEN <<".", Sep>> ELSE <<".">>)
    ELSE (IF abs THEN <<Sep>> ELSE <<>>) \o body \o (IF trailing THEN <<Sep>> ELSE <<>>)

\* path.normalize
normalize(p) ==
    IF p = <<>> THEN <<".">>
    ELSE Normalized(JoinSegments(Resolve(Segments(p), <<>>, isAbsolute(p))),
                    isAbsolute(p), p[Len(p)] = Sep)

\* path.join: the arguments that are not empty, with a separator between them
JoinedText(a, b) ==
    IF a = <<>> THEN b
    ELSE IF b = <<>> THEN a
    ELSE a \o <<Sep>> \o b

\* path.join of two arguments
join(a, b) == normalize(JoinedText(a, b))

\* path.join of three arguments
join3(a, b, c) == normalize(JoinedText(JoinedText(a, b), c))

\* path.dirname: the text before the last separator that precedes the last
\* segment; "/" for a path directly under the root and for the root itself
dirname(p) ==
    IF p = <<>> THEN <<".">>
    ELSE LET hasRoot == p[1] = Sep
             \* the separators, from the second character on, that a segment follows
             ends == {i \in 2..Len(p) : p[i] = Sep /\ \E j \in (i+1)..Len(p) : p[j] # Sep}
         IN  IF ends = {} THEN (IF hasRoot THEN <<Sep>> ELSE <<".">>)
             ELSE LET end == CHOOSE i \in ends : \A j \in ends : j <= i IN
                  IF hasRoot /\ end = 2 THEN <<Sep, Sep>>
                  ELSE SubSeq(p, 1, end - 1)

---------------------------------------------------------------------------
(* The directory tree and the files it may hold *)

DirNames == <<"w", "p", "lib", "a", "b", "c", "d", "e">>

\* the directory at depth k: "/", "/w", "/w/p", ...
Dir(k) == IF k = 0 THEN <<Sep>> ELSE <<Sep>> \o JoinSegments(SubSeq(DirNames, 1, k))

Dirs == {Dir(k) : k \in 0..MaxDepth}

FileNames == {<<".credo.exs">>, <<"alt.exs">>}

\* every place a file may be: in a directory of the tree or in its config/ folder
FileUniverse ==
    {join(d, n) : d \in Dirs, n \in FileNames}
        \cup {join3(d, <<"config">>, n) : d \in Dirs, n \in FileNames}

Layouts == {F \in SUBSET FileUniverse : Cardinality(F) <= MaxFiles}

\* the source files that may be open in the editor, one per directory
Documents == {join(d, <<"mod.ex">>) : d \in Dirs}

LintedDocument == join(Dir(MaxDepth), <<"mod.ex">>)

---------------------------------------------------------------------------
(* node:fs *)

IsPrefix(s, t) == Len(s) <= Len(t) /\ SubSeq(t, 1, Len(s)) = s

\* p is the path q or the path of a directory above it (both normalized, absolute)
Contains(p, q) ==
    LET n == Tail(p) IN
    \/ n = <<>>
    \/ IsPrefix(p, q) /\ (Len(p) = Len(q) \/ q[Len(p) + 1] = Sep)

\* process.cwd(), against which the filesystem resolves a relative path
cwd == <<Sep>>

\* the absolute path of the node reached through the segments segs
PathOf(segs) == <<Sep>> \o JoinSegments(segs)

\* the node is a directory: one of the tree, or one that holds a file on disk
IsDirectory(segs) ==
    \/ PathOf(segs) \in Dirs
    \/ \E f \in files : f # PathOf(segs) /\ Contains(PathOf(segs), f)

\* the node is a directory or a file on disk
IsEntry(segs) == IsDirectory(segs) \/ PathOf(segs) \in files

\* the lookup has failed (ENOENT, ENOTDIR)
NoEntry == <<"#ENOENT">>

\* the lookup of one segment in the node at: only a directory has entries,
\* ".", and ".." (the root is its own parent)
LookupSegment(at, s) ==
    IF at = NoEntry \/ ~IsDirectory(at) THEN NoEntry
    ELSE IF s = "." THEN at
    ELSE IF s = ".." THEN (IF at = <<>> THEN at ELSE SubSeq(at, 1, Len(at) - 1))
    ELSE IF IsEntry(Append(at, s)) THEN Append(at, s)
    ELSE NoEntry

\* the path walk of the filesystem: the segments are looked up left to right
RECURSIVE Lookup(_, _)
Lookup(segs, at) ==
    IF segs = <<>> THEN at
    ELSE Lookup(Tail(segs), LookupSegment(at, Head(segs)))

\* a path that ends in a separator names a directory only
Reached(p, at) == at # NoEntry /\ (p[Len(p)] = Sep => IsDirectory(at))

\* fs.existsSync: the path is walked on the filesystem, from the root or from
\* the working directory, and every segment but the last must be a directory
existsSync(p) ==
    /\ p # <<>>
    /\ Reached(p, Lookup(Segments(p), IF isAbsolute(p) THEN <<>> ELSE Segments(cwd)))

\* String.prototype.replace with a string pattern: the first occurrence only
replace(s, pat, rep) ==
    LET at == {i \in 1..(Len(s) - Len(pat) + 1) : SubSeq(s, i, i + Len(pat) - 1) = pat} IN
    IF at = {} THEN s
    ELSE LET i == CHOOSE k \in at : \A j \in at : k <= j IN
         SubSeq(s, 1, i - 1) \o rep \o SubSeq(s, i + Len(pat), Len(s))

---------------------------------------------------------------------------
(* findUp, lines 40-48 *)

\* one stack frame: the file tested, and either the value returned or the
\* directory of the recursive call
\* (a frame that never compares dir with stopAt)
findUpFrameNoStop(name, dir, stopAt) ==
    IF existsSync(join(dir, name)) THEN [returns |-> TRUE, value |-> dir]
    ELSE [returns |-> FALSE, value |-> dirname(dir)]

\* (a frame that compares dir with stopAt before it tests the file)
findUpFrameStopFirst(name, dir, stopAt) ==
    IF dir = stopAt THEN [returns |-> TRUE, value |-> Undefined]
    ELSE IF existsSync(join(dir, name)) THEN [returns |-> TRUE, value |-> dir]
    ELSE [returns |-> FALSE, value |-> dirname(dir)]

\* (a frame that recurses on dir, not on its parent)
findUpFrameSameDir(name, dir, stopAt) ==
    IF existsSync(join(dir, name)) THEN [returns |-> TRUE, value |-> dir]
    ELSE IF dir = stopAt THEN [returns |-> TRUE, value |-> Undefined]
    ELSE [returns |-> FALSE, value |-> dir]

findUpFrame(name, dir, stopAt) ==
    IF existsSync(join(dir, name)) THEN [returns |-> TRUE, value |-> dir]
    ELSE IF dir = stopAt THEN [returns |-> TRUE, value |-> Undefined]
    ELSE [returns |-> FALSE, value |-> dirname(dir)]

\* the whole call. At the root dirname(dir) is dir: the recursive call is the
\* call that makes it, the recursion has no end and the stack overflows.
RECURSIVE findUp(_, _, _)
findUpAfter(name, dir, stopAt, f) ==
    IF f.returns THEN f.value
    ELSE IF f.value = dir THEN RangeError
    ELSE findUp(name, f.value, stopAt)

findUp(name, dir, stopAt) == findUpAfter(name, dir, stopAt, findUpFrame(name, dir, stopAt))

Idle == [pc |-> "idle", dir |-> <<>>, probes |-> <<>>]

\* findUp(name, {startAt, stopAt}) is called: its first frame is entered
FindUpCall(name, startAt, stopAt) ==
    /\ op = "none"
    /\ op' = "findUp"
    /\ in' = [name |-> name, startAt |-> startAt, stopAt |-> stopAt]
    /\ out' = Undefined
    /\ logs' = <<>>
    /\ fu' = [pc |-> "running", dir |-> startAt, probes |-> <<>>]
    /\ UNCHANGED <<files, DefaultCommandArguments>>

\* the frame of the call in progress runs: it returns or it recurses
FindUpStep ==
    /\ fu.pc = "running"
    /\ LET f == findUpFrame(in.name, fu.dir, in.stopAt)
           probes == Append(fu.probes, fu.dir)
       IN  IF f.returns
               THEN /\ fu' = [pc |-> "done", dir |-> fu.dir, probes |-> probes]
                    /\ out' = f.value
           ELSE IF f.value = fu.dir
               THEN /\ fu' = [pc |-> "thrown", dir |-> fu.dir, probes |-> probes]
                    /\ out' = RangeError
           ELSE /\ fu' = [pc |-> "running", dir |-> f.value, probes |-> probes]
                /\ out' = Undefined
    /\ UNCHANGED <<files, DefaultCommandArguments, op, in, logs>>

---------------------------------------------------------------------------
(* The editor: vscode.workspace.getWorkspaceFolder *)

\* the fsPath of the workspace folder that holds the document, if any
getWorkspaceFolder(documentUri, folder) ==
    IF folder # Undefined /\ Contains(folder, documentUri) THEN folder ELSE Undefined

---------------------------------------------------------------------------
(* getProjectFolder, lines 62-74 *)

\* lines 66-73, given the workspace folder of the document
ProjectFolderIn(documentUri, workspace) ==
    Or(Or(IF workspace # Undefined
              THEN findUp(<<".credo.exs">>, dirname(documentUri), workspace)
          ELSE Undefined,
          workspace),
       dirname(documentUri))

getProjectFolder(documentUri, folder) ==
    ProjectFolderIn(documentUri, getWorkspaceFolder(documentUri, folder))

---------------------------------------------------------------------------
(* getCredoConfigFilePath, lines 76-104 *)

Warning(message) == [level |-> "Warning", message |-> message]

\* Array.prototype.join(', ')
RECURSIVE JoinComma(_)
JoinComma(list) ==
    IF list = <<>> THEN <<>>
    ELSE IF Len(list) = 1 THEN list[1]
    ELSE list[1] \o <<", ">> \o JoinComma(Tail(list))

\* Array.prototype.filter with fs.existsSync
FilterExists(list) == SelectSeq(list, existsSync)

\* line 102: the project folder and the separator are cut out of the path found
StripProjectFolder(fullPath, projectFolder) ==
    replace(fullPath, Template(projectFolder) \o <<Sep>>, <<>>)

\* lines 85-86: the project folder of the document
ProjectFolderOf(documentUri, folder) ==
    IF documentUri = Undefined THEN Undefined
    ELSE Or(getProjectFolder(documentUri, folder), getWorkspaceFolder(documentUri, folder))

\* lines 88-92: the candidates that exist, in the order they are tried
Found(projectFolder, configurationFile) ==
    IF ~Falsy(projectFolder)
        THEN FilterExists(<<join(projectFolder, configurationFile),
                            join3(projectFolder, <<"config">>, configurationFile)>>)
    ELSE <<>>

\* lines 94-103: what is logged and returned
Resolved(found, projectFolder, configurationFile, silent) ==
    IF Len(found) = 0
        THEN [value |-> Null,
              logged |-> IF ~silent
                  THEN <<Warning(configurationFile \o <<" file does not exist. Ignoring...">>)>>
                  ELSE <<>>]
    ELSE [value |-> StripProjectFolder(found[1], projectFolder),
          logged |-> IF Len(found) > 1 /\ ~silent
              THEN <<Warning(<<"Found multiple files (">> \o JoinComma(found)
                             \o <<"). I will use ">> \o found[1])>>
              ELSE <<>>]

\* lines 85-103, given the project folder
Searched(projectFolder, configurationFile, silent) ==
    Resolved(Found(projectFolder, configurationFile), projectFolder, configurationFile, silent)

\* (a resolver without the test of line 83)
LocatedNoOverride(documentUri, silent, configurationFile, folder) ==
    Searched(ProjectFolderOf(documentUri, folder), configurationFile, silent)

\* lines 83-103, given the configuration file of line 80
Located(documentUri, silent, configurationFile, folder) ==
    IF isAbsolute(configurationFile) /\ existsSync(configurationFile)
        THEN [value |-> configurationFile, logged |-> <<>>]
    ELSE Searched(ProjectFolderOf(documentUri, folder), configurationFile, silent)

\* the value returned and the messages logged; setting is the user's
\* configurationFile, folder the open workspace folder
getCredoConfigFilePath(documentUri, silent, setting, folder) ==
    Located(documentUri, silent, Or(setting, DefaultConfigFile), folder)

---------------------------------------------------------------------------
(* getCommandArguments, lines 106-138 *)

\* forEach(tag => commandArguments.push(flag, tag))
RECURSIVE PushEach(_, _)
PushEach(flag, tags) ==
    IF tags = <<>> THEN <<>>
    ELSE <<flag, Head(tags)>> \o PushEach(flag, Tail(tags))

\* (tag filters without the else of line 121)
TagArgumentsBoth(checksWithTag, checksWithoutTag) ==
    PushEach(<<"--checks-with-tag">>, checksWithTag)
        \o PushEach(<<"--checks-without-tag">>, checksWithoutTag)

\* lines 117-125: the tag filters
TagArguments(checksWithTag, checksWithoutTag) ==
    IF Len(checksWithTag) # 0 THEN PushEach(<<"--checks-with-tag">>, checksWithTag)
    ELSE IF Len(checksWithoutTag) # 0 THEN PushEach(<<"--checks-without-tag">>, checksWithoutTag)
    ELSE <<>>

\* (a merge base without the fallback of line 132)
DiffArgumentsNoDefault(diffMode) ==
    IF diffMode.enabled THEN <<<<"--from-git-merge-base">>, diffMode.mergeBase>> ELSE <<>>

\* lines 131-133: the merge base of diff mode
DiffArguments(diffMode) ==
    IF diffMode.enabled
        THEN <<<<"--from-git-merge-base">>, Or(diffMode.mergeBase, <<"main">>)>>
    ELSE <<>>

\* line 135
CommandPrefix(diffMode) ==
    IF diffMode.enabled THEN <<<<DefaultCommand>>, <<DiffCommand>>>> ELSE <<<<DefaultCommand>>>>

\* (a builder that pushes --strict whatever strictMode is)
PushedAlwaysStrict(configFilePath, config) ==
    (IF ~Falsy(configFilePath) THEN <<<<"--config-file">>, configFilePath>> ELSE <<>>)
    \o (IF ~Falsy(config.credoConfiguration)
            THEN <<<<"--config-name">>, config.credoConfiguration>> ELSE <<>>)
    \o TagArguments(config.checksWithTag, config.checksWithoutTag)
    \o <<<<"--strict">>>>
    \o DiffArguments(config.diffMode)

\* lines 110-133: what the call pushes, in order
Pushed(configFilePath, config) ==
    (IF ~Falsy(configFilePath) THEN <<<<"--config-file">>, configFilePath>> ELSE <<>>)
    \o (IF ~Falsy(config.credoConfiguration)
            THEN <<<<"--config-name">>, config.credoConfiguration>> ELSE <<>>)
    \o TagArguments(config.checksWithTag, config.checksWithoutTag)
    \o (IF config.strictMode THEN <<<<"--strict">>>> ELSE <<>>)
    \o DiffArguments(config.diffMode)

\* line 107: the array the call pushes to, a copy of the shared one
CommandArgumentsArray(shared) == shared

\* (the shared array when line 107 takes no copy of it)
SharedAfterPushAliased(shared, pushed) == shared \o pushed

\* the shared array after the call has pushed to its own array
SharedAfterPush(shared, pushed) == shared

\* the list returned, given the array of line 10 as the call finds it and
\* what getCredoConfigFilePath(documentUri) returned
getCommandArguments(shared, configFilePath, config) ==
    LET commandArguments == CommandArgumentsArray(shared) \o Pushed(configFilePath, config)
    IN  CommandPrefix(config.diffMode) \o commandArguments

---------------------------------------------------------------------------
(* getCommandEnvironment, lines 140-152 *)

\* (a PATH with executePath in front)
PathWithPrepended(ambient, executePath) == executePath \o <<Delimiter>> \o Template(ambient)

\* line 147: the PATH of the environment returned when executePath is set
PathWith(ambient, executePath) == Template(ambient) \o <<Delimiter>> \o executePath

getCommandEnvironment(env, executePath) ==
    IF ~Falsy(executePath)
        THEN [v \in DOMAIN env \cup {"PATH"} |->
                 IF v = "PATH" THEN PathWith(env["PATH"], executePath) ELSE env[v]]
    ELSE env

---------------------------------------------------------------------------
(* The inputs: the settings of the extension, the editor, the environment *)

Tags == <<<<"a">>, <<"b">>, <<"c">>, <<"d">>, <<"e">>>>

\* the tag lists of the settings checksWithTag and checksWithoutTag
TagLists == {SubSeq(Tags, i, j) : i \in 1..2, j \in 0..MaxTags}

\* the user setting configurationFile: unset, a name, the absolute path of a
\* file, and that path with a separator after it
ConfigurationFiles ==
    {<<>>, <<"alt.exs">>, join(Dir(1), <<"alt.exs">>),
     JoinedText(Dir(1), <<"alt.exs">>) \o <<Sep>>}

DiffModes ==
    {[enabled |-> FALSE, mergeBase |-> <<>>],
     [enabled |-> TRUE, mergeBase |-> <<>>],
     [enabled |-> TRUE, mergeBase |-> <<"develop">>]}

\* what getCurrentConfiguration() may return
Configurations ==
    [configurationFile : ConfigurationFiles,
     credoConfiguration : {<<>>, <<"ci">>},
     checksWithTag : TagLists,
     checksWithoutTag : TagLists,
     strictMode : BOOLEAN,
     diffMode : DiffModes]

\* the open workspace folder, if any
Folders == Dirs \cup {Undefined}

\* process.env; Undefined: the variable is not set
Environments ==
    [PATH : {Undefined, <<>>, <<Sep, "bin">>, <<Sep, "usr", Delimiter, Sep, "bin">>},
     HOME : {Undefined, <<Sep, "home">>},
     MIX_ENV : {Undefined, <<"dev">>, <<"test">>}]

ExecutePaths == {Undefined, <<>>, <<Sep, "opt", Sep, "elixir">>, <<Sep, "bin">>}

---------------------------------------------------------------------------
(* The state machine: the host calls an exported function, the function   *)
(* runs to its end, the host takes the result and is free to call again.  *)

\* the files of the project in Dir(1): the layouts the command builder runs on
ProjectLayouts ==
    {F \in Layouts : \A f \in F : dirname(f) \in {Dir(1), join(Dir(1), <<"config">>)}}

Start ==
    /\ DefaultCommandArguments = <<<<"--format">>, <<"json">>, <<"--read-from-stdin">>>>
    /\ op = "none"
    /\ in = <<>>
    /\ out = Undefined
    /\ logs = <<>>
    /\ fu = Idle

Init == files \in Layouts /\ Start

BuilderInit == files \in ProjectLayouts /\ Start

GetCredoConfigFilePath(documentUri, silent, setting, folder) ==
    /\ op = "none"
    /\ LET r == getCredoConfigFilePath(documentUri, silent, setting, folder) IN
       /\ out' = r.value
       /\ logs' = r.logged
    /\ op' = "getCredoConfigFilePath"
    /\ in' = [documentUri |-> documentUri, silent |-> silent,
              configurationFile |-> setting, folder |-> folder]
    /\ UNCHANGED <<files, DefaultCommandArguments, fu>>

GetCommandArguments(documentUri, config, folder) ==
    /\ op = "none"
    /\ LET r == getCredoConfigFilePath(documentUri, FALSE, config.configurationFile, folder)
       IN  /\ out' = getCommandArguments(DefaultCommandArguments, r.value, config)
           /\ logs' = r.logged
           /\ DefaultCommandArguments' =
                  SharedAfterPush(DefaultCommandArguments, Pushed(r.value, config))
    /\ op' = "getCommandArguments"
    /\ in' = [documentUri |-> documentUri, config |-> config, folder |-> folder]
    /\ UNCHANGED <<files, fu>>

GetCommandEnvironment(env, executePath) ==
    /\ op = "none"
    /\ out' = getCommandEnvironment(env, executePath)
    /\ op' = "getCommandEnvironment"
    /\ in' = [env |-> env, executePath |-> executePath]
    /\ UNCHANGED <<files, DefaultCommandArguments, logs, fu>>

\* the caller takes what the call returned (or threw)
Return ==
    /\ op # "none"
    /\ fu.pc # "running"
    /\ op' = "none"
    /\ in' = <<>>
    /\ out' = Undefined
    /\ logs' = <<>>
    /\ fu' = Idle
    /\ UNCHANGED <<files, DefaultCommandArguments>>

\* the configuration locator
Next ==
    \/ \E name \in FileNames, startAt \in Dirs, stopAt \in Folders :
           FindUpCall(name, startAt, stopAt)
    \/ FindUpStep
    \/ \E documentUri \in Documents \cup {Undefined}, silent \in BOOLEAN,
          setting \in ConfigurationFiles, folder \in Folders :
           GetCredoConfigFilePath(documentUri, silent, setting, folder)
    \/ Return

Spec == Init /\ [][Next]_vars

\* what the command builder is called with: the document linted, the deepest
\* one, below every directory of the tree, with any workspace folder open, or
\* no document (the workspace folder is then never asked for)
Contexts ==
    {[documentUri |-> LintedDocument, folder |-> f] : f \in Folders}
        \cup {[documentUri |-> Undefined, folder |-> Undefined]}

\* the command builder
BuilderNext ==
    \/ \E context \in Contexts, config \in Configurations :
           GetCommandArguments(context.documentUri, config, context.folder)
    \/ \E context \in Contexts, silent \in BOOLEAN, setting \in ConfigurationFiles :
           GetCredoConfigFilePath(context.documentUri, silent, setting, context.folder)
    \/ \E env \in Environments, executePath \in ExecutePaths :
           GetCommandEnvironment(env, executePath)
    \/ Return

BuilderSpec == BuilderInit /\ [][BuilderNext]_vars

---------------------------------------------------------------------------
(* What the claims speak of, said without the code's own path functions *)

\* a is b or a directory above b
AtOrAbove(a, b) == Contains(a, b)

Above(a, b) == a # b /\ Contains(a, b)

\* the path of the entry called rel in the directory dir
Under(dir, rel) == IF dir = <<Sep>> THEN dir \o rel ELSE dir \o <<Sep>> \o rel

\* the directory directly holds a file of that name
Holds(dir, name) == Under(dir, name) \in files

Range(seq) == {seq[i] : i \in 1..Len(seq)}

\* the directories from startAt up to stopAt, both included
Chain(startAt, stopAt) == {d \in Dirs : AtOrAbove(stopAt, d) /\ AtOrAbove(d, startAt)}

\* a call of findUp was made with a stop directory
BoundedCall == op = "findUp" /\ in.stopAt # Undefined

\* ... that is the start directory or a directory above it
WellFormedCall == BoundedCall /\ AtOrAbove(in.stopAt, in.startAt)

---------------------------------------------------------------------------
(* C1 *)

\* what C1 says of a call, whatever its stop directory: no directory above
\* the stop is tested, the directory returned is the start or above it and
\* not above the stop, and the call throws nothing
StaysBelowStop ==
    /\ \A d \in Range(fu.probes) : ~Above(d, in.stopAt)
    /\ fu.pc # "thrown"
    /\ fu.pc = "done" /\ out # Undefined =>
           AtOrAbove(out, in.startAt) /\ ~Above(out, in.stopAt)
    /\ fu.pc = "done" /\ fu.dir = in.stopAt /\ ~Holds(in.stopAt, in.name) =>
           out = Undefined

\* C1 as stated: for every start and stop directory, findUp tests no
\* directory above the stop directory, returns the start directory or one
\* above it that is not above the stop, and returns undefined, not an error,
\* when it reaches the stop without a hit.
C1_AnyStop == BoundedCall => StaysBelowStop

\* C1 as amended: the same, for every call whose stop directory is the start
\* directory or a directory above it.
C1_StopAtOrAboveStart == WellFormedCall => StaysBelowStop

\* the file is found in the stop directory, above the start directory
C1_Witness ==
    /\ WellFormedCall
    /\ fu.pc = "done"
    /\ out = in.stopAt
    /\ in.startAt # in.stopAt

---------------------------------------------------------------------------
(* C2 *)

\* the directories of the chain that hold the file
Hits == {d \in Chain(in.startAt, in.stopAt) : Holds(d, in.name)}

\* C2: when the stop directory is the start directory or above it, findUp
\* returns the nearest directory of the chain start..stop that holds the
\* file: the deepest one, the stop directory and the start directory
\* included; undefined when none holds it.
C2_NearestOnChain ==
    WellFormedCall /\ fu.pc = "done" =>
        IF Hits = {} THEN out = Undefined
        ELSE /\ out \in Hits
             /\ \A d \in Hits : AtOrAbove(d, out)
             /\ Holds(in.startAt, in.name) => out = in.startAt
             /\ Hits = {in.stopAt} => out = in.stopAt

\* two directories of the chain hold the file and the call returns the
\* deeper one, which is above the start directory
C2_Witness ==
    /\ WellFormedCall
    /\ fu.pc = "done"
    /\ Cardinality(Hits) = 2
    /\ out \in Hits
    /\ out # in.startAt
    /\ out # in.stopAt

---------------------------------------------------------------------------
(* C9 *)

NoDuplicates(seq) == \A i, j \in 1..Len(seq) : seq[i] = seq[j] => i = j

\* C9: a call whose stop directory is the start directory or above it tests
\* each directory of the chain at most once and no other, throws nothing,
\* ends on a hit (it returns the directory tested last) or at the stop
\* directory (it returns undefined) and tests nothing after the stop
\* directory. It ends: while it runs, the directory of its next frame is
\* an untested directory of the chain, and every frame tests one.
C9_FindUpTerminates ==
    WellFormedCall =>
        /\ Range(fu.probes) \subseteq Chain(in.startAt, in.stopAt)
        /\ NoDuplicates(fu.probes)
        /\ fu.pc \in {"running", "done"}
        /\ in.stopAt \in Range(fu.probes) => fu.pc = "done"
        /\ fu.pc = "done" =>
               \/ out = fu.dir /\ Holds(fu.dir, in.name)
               \/ out = Undefined /\ fu.dir = in.stopAt
        /\ fu.pc = "running" =>
               /\ fu.dir \in Chain(in.startAt, in.stopAt) \ Range(fu.probes)
               /\ Len(fu.probes) < Cardinality(Chain(in.startAt, in.stopAt))

\* the call has tested the whole tree, from the deepest directory to the
\* root, and found nothing
C9_Witness ==
    /\ WellFormedCall
    /\ fu.pc = "done"
    /\ out = Undefined
    /\ Len(fu.probes) = MaxDepth + 1

---------------------------------------------------------------------------
(* C3 *)

\* getCredoConfigFilePath was called with an absolute configurationFile
\* that is a file on disk
AbsoluteOverride ==
    /\ op = "getCredoConfigFilePath"
    /\ in.configurationFile # <<>>
    /\ Head(in.configurationFile) = Sep
    /\ in.configurationFile \in files

\* C3: an absolute configuration file that exists is returned as configured,
\* nothing stripped, nothing logged, whatever the document, the workspace
\* folder and the candidates in the project folder.
C3_AbsoluteOverrideWins ==
    AbsoluteOverride => out = in.configurationFile /\ logs = <<>>

\* the override exists, warnings are not silenced, and the project folder of
\* the document holds a candidate of that name as well
C3_Witness ==
    /\ AbsoluteOverride
    /\ ~in.silent
    /\ in.documentUri # Undefined
    /\ Found(ProjectFolderOf(in.documentUri, in.folder), in.configurationFile) # <<>>
    /\ out = in.configurationFile

---------------------------------------------------------------------------
(* C4 *)

\* the configured name as a path relative to the project folder
RelativeName(configurationFile) ==
    IF Head(configurationFile) = Sep THEN Tail(configurationFile) ELSE configurationFile

\* the two candidates, as paths relative to the project folder, in order
Candidates(configurationFile) ==
    <<RelativeName(configurationFile),
      <<"config", Sep>> \o RelativeName(configurationFile)>>

IsOnDisk(projectFolder, rel) == projectFolder # Undefined /\ Under(projectFolder, rel) \in files

\* the first candidate on disk, Null when there is none
FirstOnDisk(projectFolder, candidates) ==
    IF IsOnDisk(projectFolder, candidates[1]) THEN candidates[1]
    ELSE IF IsOnDisk(projectFolder, candidates[2]) THEN candidates[2]
    ELSE Null

\* C4: without an absolute override, getCredoConfigFilePath returns the first
\* of <projectRoot>/<name>, <projectRoot>/config/<name> that is on disk, as a
\* path relative to the project root, and null exactly when neither is.
C4_FirstCandidateRelative ==
    op = "getCredoConfigFilePath" /\ ~AbsoluteOverride =>
        out = FirstOnDisk(ProjectFolderOf(in.documentUri, in.folder),
                          Candidates(Or(in.configurationFile, DefaultConfigFile)))

---------------------------------------------------------------------------
(* What the claims about the argument list speak of *)

Has(list, arg) == \E i \in 1..Len(list) : list[i] = arg

\* the positions of a flag in the list, in order
Positions(list, flag) ==
    SelectSeq([i \in 1..Len(list) |-> i], LAMBDA i : list[i] = flag)

\* the arguments that follow the occurrences of a flag, in order
ValuesOf(list, flag) ==
    [k \in 1..Len(Positions(list, flag)) |->
        IF Positions(list, flag)[k] < Len(list)
            THEN list[Positions(list, flag)[k] + 1] ELSE Undefined]

Baseline == <<<<"--format">>, <<"json">>, <<"--read-from-stdin">>>>

Built == op = "getCommandArguments"

---------------------------------------------------------------------------
(* C5 *)

\* C5: the list never holds both tag flags. With include tags it holds one
\* --checks-with-tag pair per include tag, in the configured order, and no
\* --checks-without-tag; without include tags it holds one
\* --checks-without-tag pair per exclude tag and no --checks-with-tag.
C5_TagFlagsExclusive ==
    Built =>
        /\ ~(Has(out, <<"--checks-with-tag">>) /\ Has(out, <<"--checks-without-tag">>))
        /\ ValuesOf(out, <<"--checks-with-tag">>) = in.config.checksWithTag
        /\ ValuesOf(out, <<"--checks-without-tag">>) =
               IF in.config.checksWithTag = <<>> THEN in.config.checksWithoutTag ELSE <<>>

\* two include tags and an exclude tag are configured
C5_Witness ==
    /\ Built
    /\ Len(in.config.checksWithTag) = 2
    /\ in.config.checksWithTag[1] # in.config.checksWithTag[2]
    /\ in.config.checksWithoutTag # <<>>
    /\ Has(out, <<"--checks-with-tag">>)

---------------------------------------------------------------------------
(* C6 *)

\* C6: in diff mode the list begins credo, diff, then the baseline flags,
\* and holds --from-git-merge-base followed by the configured merge base,
\* main when none is configured; otherwise it begins credo, then the
\* baseline flags, and holds neither diff nor --from-git-merge-base.
C6_DiffMode ==
    Built =>
        IF in.config.diffMode.enabled
            THEN /\ Len(out) >= 7
                 /\ SubSeq(out, 1, 5) = <<<<"credo">>, <<"diff">>>> \o Baseline
                 /\ ValuesOf(out, <<"--from-git-merge-base">>) =
                        <<IF in.config.diffMode.mergeBase = <<>> THEN <<"main">>
                          ELSE in.config.diffMode.mergeBase>>
        ELSE /\ Len(out) >= 4
             /\ SubSeq(out, 1, 4) = <<<<"credo">>>> \o Baseline
             /\ ~Has(out, <<"diff">>)
             /\ ~Has(out, <<"--from-git-merge-base">>)

\* diff mode without a merge base, in strict mode with a configuration file
C6_Witness ==
    /\ Built
    /\ in.config.diffMode.enabled
    /\ in.config.diffMode.mergeBase = <<>>
    /\ in.config.strictMode
    /\ Has(out, <<"--config-file">>)
    /\ out[Len(out)] = <<"main">>

---------------------------------------------------------------------------
(* C7 *)

Plain == Built /\ ~in.config.strictMode /\ ~in.config.diffMode.enabled

\* the --config-file pair of the list, if the list has one after the baseline
ConfigFilePair(list) ==
    IF Len(list) >= 6 /\ list[5] = <<"--config-file">> THEN SubSeq(list, 5, 6) ELSE <<>>

\* the --config-name pair the settings ask for
ConfigNamePair(config) ==
    IF config.credoConfiguration # <<>>
        THEN <<<<"--config-name">>, config.credoConfiguration>> ELSE <<>>

\* the tag pairs the settings ask for
RECURSIVE Pairs(_, _)
Pairs(flag, values) ==
    IF values = <<>> THEN <<>> ELSE <<flag, Head(values)>> \o Pairs(flag, Tail(values))

TagPairs(config) ==
    IF config.checksWithTag # <<>> THEN Pairs(<<"--checks-with-tag">>, config.checksWithTag)
    ELSE Pairs(<<"--checks-without-tag">>, config.checksWithoutTag)

\* C7 as stated: without strict mode and diff mode the list is credo, the
\* baseline flags, and any --config-file and --config-name pair: nothing else.
C7_OnlyConfigFlags ==
    Plain =>
        out = <<<<"credo">>>> \o Baseline \o ConfigFilePair(out) \o ConfigNamePair(in.config)

\* C7 as amended: without strict mode and diff mode the list is credo, the
\* baseline flags, any --config-file and --config-name pair and the pairs of
\* the tag filter: nothing else, no strict flag, no diff flag.
C7_ConfigAndTagFlags ==
    Plain =>
        /\ out = <<<<"credo">>>> \o Baseline \o ConfigFilePair(out)
                     \o ConfigNamePair(in.config) \o TagPairs(in.config)
        /\ ~Has(out, <<"--strict">>)
        /\ ~Has(out, <<"diff">>)
        /\ ~Has(out, <<"--from-git-merge-base">>)

\* a plain call with a configuration file, a configuration name and tags
C7_Witness ==
    /\ Plain
    /\ Has(out, <<"--config-file">>)
    /\ Has(out, <<"--config-name">>)
    /\ Has(out, <<"--checks-without-tag">>)

---------------------------------------------------------------------------
(* C8 *)

\* the entries of a PATH, in the order they are searched
RECURSIVE Entries(_, _)
Entries(text, entry) ==
    IF text = <<>> THEN <<entry>>
    ELSE IF Head(text) = Delimiter THEN <<entry>> \o Entries(Tail(text), <<>>)
    ELSE Entries(Tail(text), Append(entry, Head(text)))

Spawned == op = "getCommandEnvironment"

Overridden == Spawned /\ in.executePath # Undefined /\ in.executePath # <<>>

\* every variable but PATH is as in the ambient environment
OthersKept == DOMAIN out = DOMAIN in.env /\ \A v \in DOMAIN in.env \ {"PATH"} : out[v] = in.env[v]

\* C8 as stated: the environment is the ambient one with the override put
\* in front of PATH (override, delimiter, ambient PATH), so that the
\* override is searched first; without an override it is the ambient one.
C8_OverrideFirst ==
    Spawned =>
        IF Overridden
            THEN /\ OthersKept
                 /\ in.env.PATH # Undefined =>
                        Entries(out.PATH, <<>>) = <<in.executePath>> \o Entries(in.env.PATH, <<>>)
        ELSE out = in.env

\* C8 as amended: the environment is the ambient one with the override put
\* at the end of PATH (ambient PATH, or the text undefined when PATH is not
\* set, then the delimiter, then the override), so that every ambient entry
\* is searched before the override; without an override it is the ambient one.
C8_OverrideLast ==
    Spawned =>
        IF Overridden
            THEN /\ OthersKept
                 /\ Entries(out.PATH, <<>>) =
                        Entries(IF in.env.PATH = Undefined THEN <<"undefined">> ELSE in.env.PATH,
                                <<>>) \o <<in.executePath>>
        ELSE out = in.env

\* an override that is not on the ambient PATH of two entries
C8_Witness ==
    /\ Overridden
    /\ in.env.PATH # Undefined
    /\ Len(Entries(in.env.PATH, <<>>)) = 2
    /\ ~Has(Entries(in.env.PATH, <<>>), in.executePath)
    /\ Len(Entries(out.PATH, <<>>)) = 3

---------------------------------------------------------------------------
(* C10 *)

\* C10: no call changes the shared array DefaultCommandArguments or the
\* files on disk, and the list a call of getCommandArguments returns is the
\* one its settings, document and files give from the array as line 10
\* sets it, whatever calls came before.
C10_NothingShared ==
    [][/\ DefaultCommandArguments' = Baseline
       /\ files' = files
       /\ op' = "getCommandArguments" =>
              out' = getCommandArguments(
                         Baseline,
                         getCredoConfigFilePath(in'.documentUri, FALSE,
                                                in'.config.configurationFile, in'.folder).value,
                         in'.config)
       /\ op' = "getCredoConfigFilePath" =>
              out' = getCredoConfigFilePath(in'.documentUri, in'.silent,
                                            in'.configurationFile, in'.folder).value]_vars

\* a call has pushed a configuration file, a name, tags and the strict flag
C10_Witness ==
    /\ Built
    /\ Has(out, <<"--config-file">>)
    /\ Has(out, <<"--config-name">>)
    /\ Has(out, <<"--checks-with-tag">>)
    /\ Has(out, <<"--strict">>)
    /\ DefaultCommandArguments = Baseline

===========================================================================
